---------------------------- MODULE Spec2Model ----------------------------
(***************************************************************************)
(* A model of contrib/msggen/msggen/utils/utils.py: the schema bundler     *)
(* (combine_schemas), the memoized bundle getter (get_schema_bundle), the  *)
(* method and notification loaders and the service assembler.              *)
(*                                                                         *)
(* Python strings are sequences of code points, so that lower(), endswith()*)
(* concatenation and the lexicographic order of sorted() are computed and  *)
(* not assumed.  An OrderedDict is a sequence of [k, v] records in         *)
(* insertion order.                                                        *)
(***************************************************************************)
EXTENDS Integers, Sequences, FiniteSets, TLC

VARIABLES
  topdir,     \* schema_dir: NoDir, or a function file name -> content
  notifdir,   \* schema_dir / "notification": NoDir, or file name -> content
  dest,       \* the artifact schema.json: [exists, text]
  ret,        \* what the last combine_schemas call returned or raised
  prevDest,   \* history: dest as it was before the last combine_schemas call
  prevRet,    \* history: ret of the call before the last one
  listing,    \* history: whether the last call saw the files of each directory in ascending order
  runs,       \* number of combine_schemas calls so far
  cache,      \* the lru_cache of get_schema_bundle: [set, obj, value]
  reads,      \* number of times schema.json was opened
  heap,       \* the CompositeField objects: object -> [typename, schema]
  nextId,     \* the next fresh object
  results,    \* history: the calls made so far, with what each returned
  pc,         \* of each thread inside get_schema_bundle: where it is
  pend,       \* of each thread: what its own run of the wrapped function returned
  rv          \* history, of each thread: what its calls returned, in order

bundlerVars == <<topdir, notifdir, ret, prevDest, prevRet, listing, runs>>
loaderVars == <<cache, reads, heap, nextId, results>>
threadVars == <<pc, pend, rv>>
vars == <<bundlerVars, dest, loaderVars, threadVars>>

-----------------------------------------------------------------------------
(* Bounds of the model *)

MaxFiles == 2        \* most files in each of the two directories
MaxRuns == 2         \* most combine_schemas runs in one behaviour
MaxCalls == 2        \* most calls of the one-threaded program in one behaviour
NThreads == 2        \* threads that call get_schema_bundle
MaxThreadCalls == 2  \* most calls of get_schema_bundle by one thread

-----------------------------------------------------------------------------
(* Strings *)

\* a sequence given as a function on 1..n, as the tuple of its values
list(f) == f \o <<>>

\* F(v), with v evaluated once: what an assignment `x = v` followed by code
\* that reads x does
Let(v, F(_)) == CHOOSE out \in {F(x) : x \in {v}} : TRUE

\* str.lower() on ASCII: 'A'..'Z' (65..90) map to 'a'..'z'
lower(s) == list([i \in 1..Len(s) |-> IF s[i] \in 65..90 THEN s[i] + 32 ELSE s[i]])

\* str.endswith(suffix)
endswith(s, suffix) ==
  /\ Len(s) >= Len(suffix)
  /\ SubSeq(s, Len(s) - Len(suffix) + 1, Len(s)) = suffix

\* the order of str (and of Path objects of one directory): by code point,
\* a proper prefix first
RECURSIVE str_lt(_, _)
str_lt(a, b) ==
  IF Len(b) = 0 THEN FALSE
  ELSE IF Len(a) = 0 THEN TRUE
  ELSE IF a[1] # b[1] THEN a[1] < b[1]
  ELSE str_lt(Tail(a), Tail(b))

\* A faulty variant of sorted: the listing as the file system gave it.
unsorted(files) == files

\* sorted(list(...)) of lines 16 and 25, a stable sort: the element at i
\* goes behind every smaller element and every equal element before it
sorted(files) ==
  LET place == list([i \in 1..Len(files) |->
                 1 + Cardinality({j \in 1..Len(files) :
                       \/ str_lt(files[j], files[i])
                       \/ files[j] = files[i] /\ j < i})])
  IN list([p \in 1..Len(files) |-> files[CHOOSE i \in 1..Len(files) : place[i] = p]])

-----------------------------------------------------------------------------
(* OrderedDict *)

od_has(od, key) == \E i \in 1..Len(od) : od[i].k = key

od_get(od, key) == od[CHOOSE i \in 1..Len(od) : od[i].k = key].v

\* od[key] = value: in place for a key it holds, appended otherwise
od_set(od, key, value) ==
  IF od_has(od, key)
  THEN list([i \in 1..Len(od) |-> IF od[i].k = key THEN [k |-> key, v |-> value] ELSE od[i]])
  ELSE Append(od, [k |-> key, v |-> value])

od_keys(od) == list([i \in 1..Len(od) |-> od[i].k])

-----------------------------------------------------------------------------
(* The file system and JSON documents *)

NoDir == [nodir |-> TRUE]       \* the directory does not exist
NotJson == [notjson |-> TRUE]   \* content json.load cannot parse
NullDoc == [null |-> TRUE]

\* the parsed content of the schema file `name`: a request and a response
\* subtree, each known by the file it came from
Doc(name) == [request |-> [src |-> name, part |-> "request"],
              response |-> [src |-> name, part |-> "response"]]

exists(dir) == dir # NoDir

\* Path.iterdir(): the entries of a directory, in an order the file system
\* chooses; raises when the directory does not exist
iterdir(names) ==
  {e \in [1..Cardinality(names) -> names] :
     \A i, j \in 1..Cardinality(names) : i # j => e[i] # e[j]}

\* the names schema_dir.iterdir() yields: its files and, when it exists, the
\* notification subdirectory itself
s_notification == <<110, 111, 116, 105, 102, 105, 99, 97, 116, 105, 111, 110>> (* "notification" *)
top_entries(top, notif) ==
  DOMAIN top \cup (IF exists(notif) THEN {s_notification} ELSE {})

-----------------------------------------------------------------------------
(* json.dump(bundle, f, indent=2) and json.load *)

\* The text is a sequence of lines; each line has its indentation, its key
\* and, for a schema file's entry, the rendered document.
json_line(ind, kind, key, val) == [ind |-> ind, kind |-> kind, key |-> key, val |-> val]

json_entries(od, ind) ==
  list([i \in 1..Len(od) |-> json_line(ind, "entry", od[i].k, od[i].v)])

RECURSIVE json_sections(_, _)
json_sections(bundle, indent) ==
  IF Len(bundle) = 0 THEN <<>>
  ELSE LET sec == Head(bundle) IN
       (IF Len(sec.v) = 0
        THEN <<json_line(indent, "empty", sec.k, NullDoc)>>
        ELSE <<json_line(indent, "open", sec.k, NullDoc)>>
             \o json_entries(sec.v, 2 * indent)
             \o <<json_line(indent, "close", <<>>, NullDoc)>>)
       \o json_sections(Tail(bundle), indent)

json_dump(bundle, indent) ==
  <<json_line(0, "open", <<>>, NullDoc)>>
  \o json_sections(bundle, indent)
  \o <<json_line(0, "close", <<>>, NullDoc)>>

\* json.load of such a text: the keys of an object in the order of the text
\* (the keys of a dumped dict are distinct). The entries of the object opened
\* before line i end at its closing line.
json_load_entries(text, i, od) ==
  LET close == CHOOSE c \in i..Len(text) :
                 /\ text[c].kind # "entry"
                 /\ \A e \in i..(c - 1) : text[e].kind = "entry"
  IN [od |-> od \o [e \in 1..(close - i) |->
                      [k |-> text[i + e - 1].key, v |-> text[i + e - 1].val]],
      next |-> close + 1]

RECURSIVE json_load_sections(_, _, _)
json_load_sections(text, i, bundle) ==
  IF text[i].kind = "empty"
  THEN json_load_sections(text, i + 1, od_set(bundle, text[i].key, <<>>))
  ELSE IF text[i].kind = "open"
  THEN LET sec == json_load_entries(text, i + 1, <<>>) IN
       json_load_sections(text, sec.next, od_set(bundle, text[i].key, sec.od))
  ELSE bundle

json_load(text) == json_load_sections(text, 2, <<>>)

-----------------------------------------------------------------------------
(* combine_schemas *)

s_json == <<46, 106, 115, 111, 110>> (* ".json" *)
s_json_nodot == <<106, 115, 111, 110>> (* "json" *)
s_methods == <<109, 101, 116, 104, 111, 100, 115>> (* "methods" *)
s_notifications == <<110, 111, 116, 105, 102, 105, 99, 97, 116, 105, 111, 110, 115>> (* "notifications" *)
s_lightning_sql == <<108, 105, 103, 104, 116, 110, 105, 110, 103, 45, 115, 113, 108, 46, 106, 115, 111, 110>> (* "lightning-sql.json" *)

Raised(e) == [outcome |-> e, bundle |-> <<>>]
Returned(b) == [outcome |-> "ok", bundle |-> b]

\* json.load(f.open()) of one directory entry
read_json(dir, f) ==
  IF f \notin DOMAIN dir THEN "IsADirectoryError"
  ELSE IF dir[f] = NotJson THEN "JSONDecodeError"
  ELSE "ok"

\* the filter of line 19
is_method_file(name) == endswith(name, s_json) /\ name # s_lightning_sql

\* the filter of line 27
is_notification_file(name) == endswith(name, s_json_nodot)

\* The loops below run over files[lo..hi]; a range of several files is run
\* as its first half and then, unless that raised, its second half.

\* the loop of lines 17-21
RECURSIVE parse_methods(_, _, _, _, _)
parse_methods(files, lo, hi, dir, methods) ==
  IF lo > hi THEN Returned(methods)
  ELSE IF lo = hi
  THEN LET f == files[lo] IN
       IF ~is_method_file(f) THEN Returned(methods)
       ELSE IF read_json(dir, f) # "ok" THEN Raised(read_json(dir, f))
       ELSE Returned(od_set(methods, f, dir[f]))
  ELSE Let(parse_methods(files, lo, (lo + hi) \div 2, dir, methods), LAMBDA first :
         IF first.outcome # "ok" THEN first
         ELSE parse_methods(files, (lo + hi) \div 2 + 1, hi, dir, first.bundle))

\* the loop of lines 26-29
RECURSIVE parse_notifications(_, _, _, _, _)
parse_notifications(files, lo, hi, dir, notifications) ==
  IF lo > hi THEN Returned(notifications)
  ELSE IF lo = hi
  THEN LET f == files[lo] IN
       IF ~is_notification_file(f) THEN Returned(notifications)
       ELSE IF read_json(dir, f) # "ok" THEN Raised(read_json(dir, f))
       ELSE Returned(od_set(notifications, f, dir[f]))
  ELSE Let(parse_notifications(files, lo, (lo + hi) \div 2, dir, notifications), LAMBDA first :
         IF first.outcome # "ok" THEN first
         ELSE parse_notifications(files, (lo + hi) \div 2 + 1, hi, dir, first.bundle))

Written(text) == [exists |-> TRUE, text |-> text]
Absent == [exists |-> FALSE, text |-> <<>>]

\* combine_schemas(schema_dir, dest), with the orders e1 and e2 in which the
\* file system enumerates the two directories: what it returns or raises, and
\* the artifact afterwards
combine_schemas(top, notif, e1, e2, d) ==
  IF ~exists(top) THEN [ret |-> Raised("FileNotFoundError"), dest |-> d] ELSE
  Let(sorted(e1), LAMBDA files1 :
  Let(parse_methods(files1, 1, Len(files1), top, <<>>), LAMBDA m :
  IF m.outcome # "ok" THEN [ret |-> m, dest |-> d]
  ELSE IF ~exists(notif) THEN [ret |-> Raised("FileNotFoundError"), dest |-> d] ELSE
  Let(sorted(e2), LAMBDA files2 :
  Let(parse_notifications(files2, 1, Len(files2), notif, <<>>), LAMBDA n :
  IF n.outcome # "ok" THEN [ret |-> n, dest |-> d] ELSE
  Let(<<[k |-> s_methods, v |-> m.bundle],
        [k |-> s_notifications, v |-> n.bundle]>>, LAMBDA bundle :
  [ret |-> Returned(bundle), dest |-> Written(json_dump(bundle, 2))])))))

-----------------------------------------------------------------------------
(* The bundler run over small directories *)

TopNames == {<<108, 105, 103, 104, 116, 110, 105, 110, 103, 45, 103, 101, 116, 105, 110, 102, 111, 46, 106, 115, 111, 110>> (* "lightning-getinfo.json" *),
             <<108, 105, 103, 104, 116, 110, 105, 110, 103, 45, 99, 111, 110, 110, 101, 99, 116, 46, 106, 115, 111, 110>> (* "lightning-connect.json" *),
             s_lightning_sql}

NotifNames == {<<99, 111, 110, 110, 101, 99, 116, 46, 114, 101, 113, 117, 101, 115, 116, 46, 106, 115, 111, 110>> (* "connect.request.json" *),
               <<99, 111, 110, 110, 101, 99, 116, 46, 115, 99, 104, 101, 109, 97, 46, 106, 115, 111, 110>> (* "connect.schema.json" *),
               <<110, 111, 116, 101, 115, 46, 116, 120, 116>> (* "notes.txt" *),
               <<103, 101, 111, 106, 115, 111, 110>> (* "geojson" *)}

\* a directory of at most MaxFiles of the names, each file a JSON document
\* but for at most one that is not parseable
Dirs(names) ==
  UNION {{kinds \in [S -> {"json", "notjson"}] :
            Cardinality({f \in S : kinds[f] = "notjson"}) <= 1} :
         S \in {T \in SUBSET names : Cardinality(T) <= MaxFiles}}

Content(kinds) == [f \in DOMAIN kinds |-> IF kinds[f] = "json" THEN Doc(f) ELSE NotJson]

\* an artifact left by an earlier build
OldArtifact == Written(json_dump(<<[k |-> s_methods, v |-> <<>>],
                                   [k |-> s_notifications, v |-> <<>>]>>, 2))

NoCall == [outcome |-> "none", bundle |-> <<>>]

InitBundler ==
  /\ \/ topdir = NoDir /\ notifdir = NoDir
     \/ /\ \E kinds \in Dirs(TopNames) : topdir = Content(kinds)
        /\ \/ notifdir = NoDir
           \/ \E kinds \in Dirs(NotifNames) : notifdir = Content(kinds)
  /\ dest \in {Absent, OldArtifact}
  /\ ret = NoCall
  /\ prevDest = dest
  /\ prevRet = NoCall
  /\ listing = <<TRUE, TRUE>>
  /\ runs = 0

Ascending(e) == \A i \in 1..(Len(e) - 1) : str_lt(e[i], e[i + 1])

CombineSchemas ==
  /\ runs < MaxRuns
  /\ \E e1 \in (IF exists(topdir) THEN iterdir(top_entries(topdir, notifdir)) ELSE {<<>>}),
        e2 \in (IF exists(notifdir) THEN iterdir(DOMAIN notifdir) ELSE {<<>>}) :
       \E r \in {combine_schemas(topdir, notifdir, e1, e2, dest)} :
       /\ ret' = r.ret
       /\ dest' = r.dest
       /\ listing' = <<Ascending(e1), Ascending(e2)>>
  /\ prevDest' = dest
  /\ prevRet' = ret
  /\ runs' = runs + 1
  /\ UNCHANGED <<topdir, notifdir>>

-----------------------------------------------------------------------------
(* get_schema_bundle: functools.lru_cache(maxsize=1) around open + json.load *)

\* Objects have an identity: the parsed bundle and every CompositeField is
\* known by a number, fresh at its construction.

NoCache == [set |-> FALSE, obj |-> 0, value |-> <<>>]

\* lines 49-50, the wrapped function: open schema.json and parse it into a
\* new object `id`
read_schema_json(d, id) ==
  IF ~d.exists THEN [outcome |-> "FileNotFoundError", obj |-> 0, value |-> <<>>]
  ELSE IF Len(d.text) = 0 THEN [outcome |-> "JSONDecodeError", obj |-> 0, value |-> <<>>]
  ELSE [outcome |-> "ok", obj |-> id, value |-> json_load(d.text)]

\* A faulty variant of lru_store: the result is dropped, as with a cache of
\* size 0.
lru_drop(c, r) == c

\* lru_cache after the wrapped function returned r: the result is stored
\* unless the key was added in the meantime
lru_store(c, r) ==
  IF c.set THEN c ELSE [set |-> TRUE, obj |-> r.obj, value |-> r.value]

\* The world a call runs in: the cache, the number of reads of schema.json,
\* the heap of CompositeFields, the next fresh object, and, as history, the
\* loader calls made and the bundle objects get_schema_bundle returned.
get_schema_bundle(w, d) ==
  IF w.cache.set
  THEN [w |-> [w EXCEPT !.got = @ \cup {w.cache.obj}],
        outcome |-> "ok", obj |-> w.cache.obj, value |-> w.cache.value]
  ELSE Let(read_schema_json(d, w.nextId), LAMBDA r :
       IF r.outcome # "ok"
       THEN [w |-> [w EXCEPT !.reads = @ + 1], outcome |-> r.outcome, obj |-> 0,
             value |-> <<>>]
       ELSE [w |-> [w EXCEPT !.reads = @ + 1, !.nextId = @ + 1,
                             !.cache = lru_store(w.cache, r),
                             !.got = @ \cup {r.obj}],
             outcome |-> "ok", obj |-> r.obj, value |-> r.value])

-----------------------------------------------------------------------------
(* The loaders *)

s_lightning == <<108, 105, 103, 104, 116, 110, 105, 110, 103, 45>> (* "lightning-" *)
s_Request == <<82, 101, 113, 117, 101, 115, 116>> (* "Request" *)
s_Response == <<82, 101, 115, 112, 111, 110, 115, 101>> (* "Response" *)
s_Stream == <<83, 116, 114, 101, 97, 109>> (* "Stream" *)
s_Notification == <<78, 111, 116, 105, 102, 105, 99, 97, 116, 105, 111, 110>> (* "Notification" *)
s_request_json == <<46, 114, 101, 113, 117, 101, 115, 116, 46, 106, 115, 111, 110>> (* ".request.json" *)
s_schema_json == <<46, 115, 99, 104, 101, 109, 97, 46, 106, 115, 111, 110>> (* ".schema.json" *)

NoValue == [kind |-> "None"]
Bundle(obj, value) == [kind |-> "Bundle", obj |-> obj, value |-> value]
Method(name, request, response) ==
  [kind |-> "Method", name |-> name, request |-> request, response |-> response]
Notification(name, typename, request, response) ==
  [kind |-> "Notification", name |-> name, typename |-> typename,
   request |-> request, response |-> response]
Service(name, methods, notifications, includes) ==
  [kind |-> "Service", name |-> name, methods |-> methods,
   notifications |-> notifications, includes |-> includes]

\* CompositeField.from_js(js, path): a new CompositeField built from the
\* schema subtree js, its type name derived from path
from_js(w, js, path) ==
  [w |-> [w EXCEPT !.heap = @ @@ (w.nextId :> [typename |-> path, schema |-> js]),
                   !.nextId = @ + 1],
   obj |-> w.nextId]

\* A faulty variant of subscript: a missing key yields a default document,
\* as a defaultdict or dict.setdefault would.
subscript_default(od, key) ==
  IF od_has(od, key) THEN [found |-> TRUE, v |-> od_get(od, key)]
  ELSE [found |-> TRUE, v |-> Doc(key)]

\* d[key] of a dict: the value, or KeyError
subscript(od, key) ==
  IF od_has(od, key) THEN [found |-> TRUE, v |-> od_get(od, key)]
  ELSE [found |-> FALSE, v |-> NullDoc]

\* js[key] of a parsed schema document
member(js, key) ==
  IF key \in DOMAIN js THEN [found |-> TRUE, v |-> js[key]]
  ELSE [found |-> FALSE, v |-> NullDoc]

Fail(w, e) == [w |-> w, outcome |-> e, value |-> NoValue]
Called(w, loader, name, typename) ==
  [w EXCEPT !.log = Append(@, [loader |-> loader, name |-> name, typename |-> typename])]

rpc_name(name) == s_lightning \o lower(name) \o s_json

\* A faulty variant of load_jsonrpc_method: lines 63-64 left out, the type
\* names stay as the builder gave them.
load_jsonrpc_method_unsuffixed(w0, d, name) ==
  Let(get_schema_bundle(Called(w0, "load_jsonrpc_method", name, <<>>), d), LAMBDA schema :
  IF schema.outcome # "ok" THEN Fail(schema.w, schema.outcome) ELSE
  Let(subscript(schema.value, s_methods), LAMBDA methods :
  IF ~methods.found THEN Fail(schema.w, "KeyError") ELSE
  Let(subscript(methods.v, rpc_name(name)), LAMBDA entry :
  IF ~entry.found THEN Fail(schema.w, "KeyError") ELSE
  Let(member(entry.v, "request"), LAMBDA req_js :
  IF ~req_js.found THEN Fail(schema.w, "KeyError") ELSE
  Let(from_js(schema.w, req_js.v, name), LAMBDA request :
  Let(member(entry.v, "response"), LAMBDA resp_js :
  IF ~resp_js.found THEN Fail(request.w, "KeyError") ELSE
  Let(from_js(request.w, resp_js.v, name), LAMBDA response :
  [w |-> response.w,
   outcome |-> "ok",
   value |-> Method(name, request.obj, response.obj)])))))))

\* A faulty variant of load_jsonrpc_method: the CompositeFields are kept
\* with the bundle and handed out again by the next load.
load_jsonrpc_method_shared(w0, d, name) ==
  LET kept(w, js) == {id \in DOMAIN w.heap : w.heap[id].schema = js}
      interned(w, js, path) ==
        IF kept(w, js) # {} THEN [w |-> w, obj |-> CHOOSE id \in kept(w, js) : TRUE]
        ELSE from_js(w, js, path)
  IN
  Let(get_schema_bundle(Called(w0, "load_jsonrpc_method", name, <<>>), d), LAMBDA schema :
  IF schema.outcome # "ok" THEN Fail(schema.w, schema.outcome) ELSE
  Let(subscript(schema.value, s_methods), LAMBDA methods :
  IF ~methods.found THEN Fail(schema.w, "KeyError") ELSE
  Let(subscript(methods.v, rpc_name(name)), LAMBDA entry :
  IF ~entry.found THEN Fail(schema.w, "KeyError") ELSE
  Let(member(entry.v, "request"), LAMBDA req_js :
  IF ~req_js.found THEN Fail(schema.w, "KeyError") ELSE
  Let(interned(schema.w, req_js.v, name), LAMBDA request :
  Let(member(entry.v, "response"), LAMBDA resp_js :
  IF ~resp_js.found THEN Fail(request.w, "KeyError") ELSE
  Let(interned(request.w, resp_js.v, name), LAMBDA response :
  [w |-> [response.w EXCEPT !.heap[request.obj].typename = @ \o s_Request,
                            !.heap[response.obj].typename = @ \o s_Response],
   outcome |-> "ok",
   value |-> Method(name, request.obj, response.obj)])))))))

load_jsonrpc_method(w0, d, name) ==
  Let(get_schema_bundle(Called(w0, "load_jsonrpc_method", name, <<>>), d), LAMBDA schema :
  IF schema.outcome # "ok" THEN Fail(schema.w, schema.outcome) ELSE
  Let(subscript(schema.value, s_methods), LAMBDA methods :
  IF ~methods.found THEN Fail(schema.w, "KeyError") ELSE
  Let(subscript(methods.v, rpc_name(name)), LAMBDA entry :
  IF ~entry.found THEN Fail(schema.w, "KeyError") ELSE
  Let(member(entry.v, "request"), LAMBDA req_js :
  IF ~req_js.found THEN Fail(schema.w, "KeyError") ELSE
  Let(from_js(schema.w, req_js.v, name), LAMBDA request :
  Let(member(entry.v, "response"), LAMBDA resp_js :
  IF ~resp_js.found THEN Fail(request.w, "KeyError") ELSE
  Let(from_js(request.w, resp_js.v, name), LAMBDA response :
  [w |-> [response.w EXCEPT !.heap[request.obj].typename = @ \o s_Request,
                            !.heap[response.obj].typename = @ \o s_Response],
   outcome |-> "ok",
   value |-> Method(name, request.obj, response.obj)])))))))

\* A faulty variant of load_notification: lines 85-86 left out, the type
\* names stay as the builder gave them.
load_notification_unnamed(w0, d, name, typename) ==
  Let(get_schema_bundle(Called(w0, "load_notification", name, typename), d), LAMBDA schema :
  IF schema.outcome # "ok" THEN Fail(schema.w, schema.outcome) ELSE
  Let(subscript(schema.value, s_notifications), LAMBDA notifications :
  IF ~notifications.found THEN Fail(schema.w, "KeyError") ELSE
  Let(lower(name) \o s_request_json, LAMBDA req_file :
  Let(lower(name) \o s_schema_json, LAMBDA resp_file :
  Let(subscript(notifications.v, req_file), LAMBDA req_js :
  IF ~req_js.found THEN Fail(schema.w, "KeyError") ELSE
  Let(from_js(schema.w, req_js.v, name), LAMBDA request :
  Let(subscript(notifications.v, resp_file), LAMBDA resp_js :
  IF ~resp_js.found THEN Fail(request.w, "KeyError") ELSE
  Let(from_js(request.w, resp_js.v, name), LAMBDA response :
  [w |-> response.w,
   outcome |-> "ok",
   value |-> Notification(name, typename, request.obj, response.obj)]))))))))

load_notification(w0, d, name, typename) ==
  Let(get_schema_bundle(Called(w0, "load_notification", name, typename), d), LAMBDA schema :
  IF schema.outcome # "ok" THEN Fail(schema.w, schema.outcome) ELSE
  Let(subscript(schema.value, s_notifications), LAMBDA notifications :
  IF ~notifications.found THEN Fail(schema.w, "KeyError") ELSE
  Let(lower(name) \o s_request_json, LAMBDA req_file :
  Let(lower(name) \o s_schema_json, LAMBDA resp_file :
  Let(subscript(notifications.v, req_file), LAMBDA req_js :
  IF ~req_js.found THEN Fail(schema.w, "KeyError") ELSE
  Let(from_js(schema.w, req_js.v, name), LAMBDA request :
  Let(subscript(notifications.v, resp_file), LAMBDA resp_js :
  IF ~resp_js.found THEN Fail(request.w, "KeyError") ELSE
  Let(from_js(request.w, resp_js.v, name), LAMBDA response :
  [w |-> [response.w EXCEPT
            !.heap[request.obj].typename = s_Stream \o typename \o s_Request,
            !.heap[response.obj].typename = typename \o s_Notification],
   outcome |-> "ok",
   value |-> Notification(name, typename, request.obj, response.obj)]))))))))

-----------------------------------------------------------------------------
(* load_jsonrpc_service and its manifest *)

method_names ==
  <<
    <<71, 101, 116, 105, 110, 102, 111>>,  \* "Getinfo"
    <<76, 105, 115, 116, 80, 101, 101, 114, 115>>,  \* "ListPeers"
    <<76, 105, 115, 116, 70, 117, 110, 100, 115>>,  \* "ListFunds"
    <<83, 101, 110, 100, 80, 97, 121>>,  \* "SendPay"
    <<76, 105, 115, 116, 67, 104, 97, 110, 110, 101, 108, 115>>,  \* "ListChannels"
    <<65, 100, 100, 71, 111, 115, 115, 105, 112>>,  \* "AddGossip"
    <<65, 117, 116, 111, 67, 108, 101, 97, 110, 73, 110, 118, 111, 105, 99, 101>>,  \* "AutoCleanInvoice"
    <<65, 117, 116, 111, 67, 108, 101, 97, 110, 45, 79, 110, 99, 101>>,  \* "AutoClean-Once"
    <<65, 117, 116, 111, 67, 108, 101, 97, 110, 45, 83, 116, 97, 116, 117, 115>>,  \* "AutoClean-Status"
    <<67, 104, 101, 99, 107, 77, 101, 115, 115, 97, 103, 101>>,  \* "CheckMessage"
    <<67, 108, 111, 115, 101>>,  \* "Close"
    <<67, 111, 110, 110, 101, 99, 116>>,  \* "Connect"
    <<67, 114, 101, 97, 116, 101, 73, 110, 118, 111, 105, 99, 101>>,  \* "CreateInvoice"
    <<68, 97, 116, 97, 115, 116, 111, 114, 101>>,  \* "Datastore"
    <<68, 97, 116, 97, 115, 116, 111, 114, 101, 85, 115, 97, 103, 101>>,  \* "DatastoreUsage"
    <<67, 114, 101, 97, 116, 101, 79, 110, 105, 111, 110>>,  \* "CreateOnion"
    <<68, 101, 108, 68, 97, 116, 97, 115, 116, 111, 114, 101>>,  \* "DelDatastore"
    <<68, 101, 108, 73, 110, 118, 111, 105, 99, 101>>,  \* "DelInvoice"
    <<73, 110, 118, 111, 105, 99, 101>>,  \* "Invoice"
    <<76, 105, 115, 116, 68, 97, 116, 97, 115, 116, 111, 114, 101>>,  \* "ListDatastore"
    <<76, 105, 115, 116, 73, 110, 118, 111, 105, 99, 101, 115>>,  \* "ListInvoices"
    <<83, 101, 110, 100, 79, 110, 105, 111, 110>>,  \* "SendOnion"
    <<76, 105, 115, 116, 83, 101, 110, 100, 80, 97, 121, 115>>,  \* "ListSendPays"
    <<76, 105, 115, 116, 84, 114, 97, 110, 115, 97, 99, 116, 105, 111, 110, 115>>,  \* "ListTransactions"
    <<80, 97, 121>>,  \* "Pay"
    <<76, 105, 115, 116, 78, 111, 100, 101, 115>>,  \* "ListNodes"
    <<87, 97, 105, 116, 65, 110, 121, 73, 110, 118, 111, 105, 99, 101>>,  \* "WaitAnyInvoice"
    <<87, 97, 105, 116, 73, 110, 118, 111, 105, 99, 101>>,  \* "WaitInvoice"
    <<87, 97, 105, 116, 83, 101, 110, 100, 80, 97, 121>>,  \* "WaitSendPay"
    <<78, 101, 119, 65, 100, 100, 114>>,  \* "NewAddr"
    <<87, 105, 116, 104, 100, 114, 97, 119>>,  \* "Withdraw"
    <<75, 101, 121, 83, 101, 110, 100>>,  \* "KeySend"
    <<70, 117, 110, 100, 80, 115, 98, 116>>,  \* "FundPsbt"
    <<83, 101, 110, 100, 80, 115, 98, 116>>,  \* "SendPsbt"
    <<83, 105, 103, 110, 80, 115, 98, 116>>,  \* "SignPsbt"
    <<85, 116, 120, 111, 80, 115, 98, 116>>,  \* "UtxoPsbt"
    <<84, 120, 68, 105, 115, 99, 97, 114, 100>>,  \* "TxDiscard"
    <<84, 120, 80, 114, 101, 112, 97, 114, 101>>,  \* "TxPrepare"
    <<84, 120, 83, 101, 110, 100>>,  \* "TxSend"
    <<76, 105, 115, 116, 80, 101, 101, 114, 67, 104, 97, 110, 110, 101, 108, 115>>,  \* "ListPeerChannels"
    <<76, 105, 115, 116, 67, 108, 111, 115, 101, 100, 67, 104, 97, 110, 110, 101, 108, 115>>,  \* "ListClosedChannels"
    <<68, 101, 99, 111, 100, 101, 80, 97, 121>>,  \* "DecodePay"
    <<68, 101, 99, 111, 100, 101>>,  \* "Decode"
    <<68, 101, 108, 80, 97, 121>>,  \* "DelPay"
    <<68, 101, 108, 70, 111, 114, 119, 97, 114, 100>>,  \* "DelForward"
    <<68, 105, 115, 97, 98, 108, 101, 79, 102, 102, 101, 114>>,  \* "DisableOffer"
    <<68, 105, 115, 99, 111, 110, 110, 101, 99, 116>>,  \* "Disconnect"
    <<70, 101, 101, 114, 97, 116, 101, 115>>,  \* "Feerates"
    <<70, 101, 116, 99, 104, 73, 110, 118, 111, 105, 99, 101>>,  \* "FetchInvoice"
    <<70, 117, 110, 100, 67, 104, 97, 110, 110, 101, 108, 95, 67, 97, 110, 99, 101, 108>>,  \* "FundChannel_Cancel"
    <<70, 117, 110, 100, 67, 104, 97, 110, 110, 101, 108, 95, 67, 111, 109, 112, 108, 101, 116, 101>>,  \* "FundChannel_Complete"
    <<70, 117, 110, 100, 67, 104, 97, 110, 110, 101, 108>>,  \* "FundChannel"
    <<70, 117, 110, 100, 67, 104, 97, 110, 110, 101, 108, 95, 83, 116, 97, 114, 116>>,  \* "FundChannel_Start"
    <<71, 101, 116, 76, 111, 103>>,  \* "GetLog"
    <<71, 101, 116, 82, 111, 117, 116, 101>>,  \* "GetRoute"
    <<76, 105, 115, 116, 70, 111, 114, 119, 97, 114, 100, 115>>,  \* "ListForwards"
    <<76, 105, 115, 116, 79, 102, 102, 101, 114, 115>>,  \* "ListOffers"
    <<76, 105, 115, 116, 80, 97, 121, 115>>,  \* "ListPays"
    <<76, 105, 115, 116, 72, 116, 108, 99, 115>>,  \* "ListHtlcs"
    <<77, 117, 108, 116, 105, 70, 117, 110, 100, 67, 104, 97, 110, 110, 101, 108>>,  \* "MultiFundChannel"
    <<79, 102, 102, 101, 114>>,  \* "Offer"
    <<79, 112, 101, 110, 67, 104, 97, 110, 110, 101, 108, 95, 65, 98, 111, 114, 116>>,  \* "OpenChannel_Abort"
    <<79, 112, 101, 110, 67, 104, 97, 110, 110, 101, 108, 95, 66, 117, 109, 112>>,  \* "OpenChannel_Bump"
    <<79, 112, 101, 110, 67, 104, 97, 110, 110, 101, 108, 95, 73, 110, 105, 116>>,  \* "OpenChannel_Init"
    <<79, 112, 101, 110, 67, 104, 97, 110, 110, 101, 108, 95, 83, 105, 103, 110, 101, 100>>,  \* "OpenChannel_Signed"
    <<79, 112, 101, 110, 67, 104, 97, 110, 110, 101, 108, 95, 85, 112, 100, 97, 116, 101>>,  \* "OpenChannel_Update"
    <<80, 105, 110, 103>>,  \* "Ping"
    <<80, 108, 117, 103, 105, 110>>,  \* "Plugin"
    <<82, 101, 110, 101, 80, 97, 121, 83, 116, 97, 116, 117, 115>>,  \* "RenePayStatus"
    <<82, 101, 110, 101, 80, 97, 121>>,  \* "RenePay"
    <<82, 101, 115, 101, 114, 118, 101, 73, 110, 112, 117, 116, 115>>,  \* "ReserveInputs"
    <<83, 101, 110, 100, 67, 117, 115, 116, 111, 109, 77, 115, 103>>,  \* "SendCustomMsg"
    <<83, 101, 110, 100, 73, 110, 118, 111, 105, 99, 101>>,  \* "SendInvoice"
    <<83, 101, 110, 100, 79, 110, 105, 111, 110, 77, 101, 115, 115, 97, 103, 101>>,  \* "SendOnionMessage"
    <<83, 101, 116, 67, 104, 97, 110, 110, 101, 108>>,  \* "SetChannel"
    <<83, 101, 116, 67, 111, 110, 102, 105, 103>>,  \* "SetConfig"
    <<83, 101, 116, 80, 115, 98, 116, 86, 101, 114, 115, 105, 111, 110>>,  \* "SetPsbtVersion"
    <<83, 105, 103, 110, 73, 110, 118, 111, 105, 99, 101>>,  \* "SignInvoice"
    <<83, 105, 103, 110, 77, 101, 115, 115, 97, 103, 101>>,  \* "SignMessage"
    <<83, 112, 108, 105, 99, 101, 95, 73, 110, 105, 116>>,  \* "Splice_Init"
    <<83, 112, 108, 105, 99, 101, 95, 83, 105, 103, 110, 101, 100>>,  \* "Splice_Signed"
    <<83, 112, 108, 105, 99, 101, 95, 85, 112, 100, 97, 116, 101>>,  \* "Splice_Update"
    <<85, 110, 114, 101, 115, 101, 114, 118, 101, 73, 110, 112, 117, 116, 115>>,  \* "UnreserveInputs"
    <<85, 112, 103, 114, 97, 100, 101, 87, 97, 108, 108, 101, 116>>,  \* "UpgradeWallet"
    <<87, 97, 105, 116, 66, 108, 111, 99, 107, 72, 101, 105, 103, 104, 116>>,  \* "WaitBlockHeight"
    <<87, 97, 105, 116>>,  \* "Wait"
    <<83, 116, 111, 112>>,  \* "Stop"
    <<80, 114, 101, 65, 112, 112, 114, 111, 118, 101, 75, 101, 121, 115, 101, 110, 100>>,  \* "PreApproveKeysend"
    <<80, 114, 101, 65, 112, 112, 114, 111, 118, 101, 73, 110, 118, 111, 105, 99, 101>>,  \* "PreApproveInvoice"
    <<83, 116, 97, 116, 105, 99, 66, 97, 99, 107, 117, 112>>,  \* "StaticBackup"
    <<66, 107, 112, 114, 45, 67, 104, 97, 110, 110, 101, 108, 115, 65, 112, 121>>,  \* "Bkpr-ChannelsApy"
    <<66, 107, 112, 114, 45, 68, 117, 109, 112, 73, 110, 99, 111, 109, 101, 67, 115, 118>>,  \* "Bkpr-DumpIncomeCsv"
    <<66, 107, 112, 114, 45, 73, 110, 115, 112, 101, 99, 116>>,  \* "Bkpr-Inspect"
    <<66, 107, 112, 114, 45, 76, 105, 115, 116, 65, 99, 99, 111, 117, 110, 116, 69, 118, 101, 110, 116, 115>>,  \* "Bkpr-ListAccountEvents"
    <<66, 107, 112, 114, 45, 76, 105, 115, 116, 66, 97, 108, 97, 110, 99, 101, 115>>,  \* "Bkpr-ListBalances"
    <<66, 107, 112, 114, 45, 76, 105, 115, 116, 73, 110, 99, 111, 109, 101>>  \* "Bkpr-ListIncome"
  >>

notification_names ==
  <<
    [name |-> <<98, 108, 111, 99, 107, 95, 97, 100, 100, 101, 100>>,
     typename |-> <<66, 108, 111, 99, 107, 65, 100, 100, 101, 100>>],  \* block_added / BlockAdded
    [name |-> <<99, 104, 97, 110, 110, 101, 108, 95, 111, 112, 101, 110, 95, 102, 97, 105, 108, 101, 100>>,
     typename |-> <<67, 104, 97, 110, 110, 101, 108, 79, 112, 101, 110, 70, 97, 105, 108, 101, 100>>],  \* channel_open_failed / ChannelOpenFailed
    [name |-> <<99, 104, 97, 110, 110, 101, 108, 95, 111, 112, 101, 110, 101, 100>>,
     typename |-> <<67, 104, 97, 110, 110, 101, 108, 79, 112, 101, 110, 101, 100>>],  \* channel_opened / ChannelOpened
    [name |-> <<99, 111, 110, 110, 101, 99, 116>>,
     typename |-> <<67, 111, 110, 110, 101, 99, 116>>],  \* connect / Connect
    [name |-> <<99, 117, 115, 116, 111, 109, 109, 115, 103>>,
     typename |-> <<67, 117, 115, 116, 111, 109, 77, 115, 103>>]  \* custommsg / CustomMsg
  >>

\* the comprehension of line 221 over names[lo..hi], run like the loops of
\* combine_schemas: the first half and then, unless that raised, the second
RECURSIVE load_methods(_, _, _, _, _, _)
load_methods(w, d, names, lo, hi, methods) ==
  IF lo > hi THEN [w |-> w, outcome |-> "ok", value |-> methods]
  ELSE IF lo = hi
  THEN Let(load_jsonrpc_method(w, d, names[lo]), LAMBDA r :
         IF r.outcome # "ok" THEN r
         ELSE [w |-> r.w, outcome |-> "ok", value |-> Append(methods, r.value)])
  ELSE Let(load_methods(w, d, names, lo, (lo + hi) \div 2, methods), LAMBDA first :
         IF first.outcome # "ok" THEN first
         ELSE load_methods(first.w, d, names, (lo + hi) \div 2 + 1, hi, first.value))

\* the comprehension of line 222
RECURSIVE load_notifications(_, _, _, _, _, _)
load_notifications(w, d, names, lo, hi, notifications) ==
  IF lo > hi THEN [w |-> w, outcome |-> "ok", value |-> notifications]
  ELSE IF lo = hi
  THEN Let(load_notification(w, d, names[lo].name, names[lo].typename), LAMBDA r :
         IF r.outcome # "ok" THEN r
         ELSE [w |-> r.w, outcome |-> "ok", value |-> Append(notifications, r.value)])
  ELSE Let(load_notifications(w, d, names, lo, (lo + hi) \div 2, notifications), LAMBDA first :
         IF first.outcome # "ok" THEN first
         ELSE load_notifications(first.w, d, names, (lo + hi) \div 2 + 1, hi, first.value))

\* A faulty variant of load_jsonrpc_service: a notification that cannot be
\* loaded is swallowed, and the Service returned without notifications.
load_jsonrpc_service_lenient(w, d) ==
  Let(load_methods(w, d, method_names, 1, Len(method_names), <<>>), LAMBDA methods :
  IF methods.outcome # "ok" THEN methods ELSE
  Let(load_notifications(methods.w, d, notification_names, 1,
                         Len(notification_names), <<>>), LAMBDA notifications :
  [w |-> notifications.w, outcome |-> "ok",
   value |-> Service("Node", methods.value,
                     IF notifications.outcome = "ok" THEN notifications.value ELSE <<>>,
                     <<"primitives.proto">>)]))

load_jsonrpc_service(w, d) ==
  Let(load_methods(w, d, method_names, 1, Len(method_names), <<>>), LAMBDA methods :
  IF methods.outcome # "ok" THEN methods ELSE
  Let(load_notifications(methods.w, d, notification_names, 1,
                         Len(notification_names), <<>>), LAMBDA notifications :
  IF notifications.outcome # "ok" THEN notifications ELSE
  [w |-> notifications.w, outcome |-> "ok",
   value |-> Service("Node", methods.value, notifications.value, <<"primitives.proto">>)]))

-----------------------------------------------------------------------------
(* The loaders run in one thread against a schema.json *)

Range(s) == {s[i] : i \in 1..Len(s)}

\* the schema directory of the repository: one file per method of the
\* manifest and two per notification, named by the convention
SchemaFile(name) == s_lightning \o lower(name) \o s_json
SchemaTopListing == list([i \in 1..Len(method_names) |-> SchemaFile(method_names[i])])
SchemaNotifListing ==
  list([i \in 1..(2 * Len(notification_names)) |->
          IF i % 2 = 1 THEN lower(notification_names[(i + 1) \div 2].name) \o s_request_json
          ELSE lower(notification_names[i \div 2].name) \o s_schema_json])
SchemaTop == [f \in Range(SchemaTopListing) |-> Doc(f)]
SchemaNotif == [f \in Range(SchemaNotifListing) |-> Doc(f)]

Without(dir, f) == [g \in DOMAIN dir \ {f} |-> dir[g]]

\* the artifact combine_schemas writes for a schema directory, enumerated in
\* the order of the listings
Bundled(top, notif) ==
  LET InTop(f) == f \in DOMAIN top
      InNotif(f) == f \in DOMAIN notif
  IN combine_schemas(top, notif,
                     <<s_notification>> \o SelectSeq(SchemaTopListing, InTop),
                     SelectSeq(SchemaNotifListing, InNotif), Absent).dest

ArtifactFull == Bundled(SchemaTop, SchemaNotif)
\* schema drift: a file the manifest names is not in the directory
ArtifactNoConnect == Bundled(Without(SchemaTop, <<108, 105, 103, 104, 116, 110, 105, 110, 103, 45, 99, 111, 110, 110, 101, 99, 116, 46, 106, 115, 111, 110>> (* "lightning-connect.json" *)), SchemaNotif)
ArtifactNoCustomMsgSchema ==
  Bundled(SchemaTop, Without(SchemaNotif, <<99, 117, 115, 116, 111, 109, 109, 115, 103, 46, 115, 99, 104, 101, 109, 97, 46, 106, 115, 111, 110>> (* "custommsg.schema.json" *)))
\* a schema file that holds no 'response'
ArtifactNoResponse ==
  Bundled([SchemaTop EXCEPT ![<<108, 105, 103, 104, 116, 110, 105, 110, 103, 45, 103, 101, 116, 105, 110, 102, 111, 46, 106, 115, 111, 110>> (* "lightning-getinfo.json" *)] = [request |-> @.request]],
          SchemaNotif)
\* an empty schema.json
ArtifactEmpty == Written(<<>>)

Artifacts == {Absent, ArtifactEmpty, ArtifactFull, ArtifactNoConnect,
              ArtifactNoCustomMsgSchema, ArtifactNoResponse}

MethodInputs == {<<71, 101, 116, 105, 110, 102, 111>> (* "Getinfo" *), <<67, 79, 78, 78, 69, 67, 84>> (* "CONNECT" *), <<68, 111, 101, 115, 78, 111, 116, 69, 120, 105, 115, 116>> (* "DoesNotExist" *)}
NotificationInputs == {[name |-> <<98, 108, 111, 99, 107, 95, 97, 100, 100, 101, 100>> (* "block_added" *), typename |-> <<66, 108, 111, 99, 107, 65, 100, 100, 101, 100>> (* "BlockAdded" *)],
                       [name |-> <<67, 85, 83, 84, 79, 77, 77, 83, 71>> (* "CUSTOMMSG" *), typename |-> <<67, 117, 115, 116, 111, 109, 77, 115, 103>> (* "CustomMsg" *)],
                       [name |-> <<103, 104, 111, 115, 116>> (* "ghost" *), typename |-> <<71, 104, 111, 115, 116>> (* "Ghost" *)]}

World == [cache |-> cache, reads |-> reads, heap |-> heap, nextId |-> nextId,
          log |-> <<>>, got |-> {}]

\* the CompositeFields of a returned value, in order
Composites(v) ==
  IF v.kind = "Service"
  THEN Let(v.methods \o v.notifications, LAMBDA both :
         list([i \in 1..(2 * Len(both)) |->
                 IF i % 2 = 1 THEN both[(i + 1) \div 2].request ELSE both[i \div 2].response]))
  ELSE IF v.kind \in {"Method", "Notification"} THEN <<v.request, v.response>>
  ELSE <<>>

\* the call returns or raises: the world is updated and the call recorded,
\* with the type names its CompositeFields have at that moment
Finish(op, name, typename, r) ==
  /\ cache' = r.w.cache
  /\ reads' = r.w.reads
  /\ heap' = r.w.heap
  /\ nextId' = r.w.nextId
  /\ results' = Append(results,
       [op |-> op, name |-> name, typename |-> typename,
        outcome |-> r.outcome, value |-> r.value,
        log |-> r.w.log, got |-> r.w.got,
        readsBefore |-> reads, readsAfter |-> r.w.reads,
        stored |-> dest.exists,
        types |-> Let(Composites(r.value), LAMBDA objs :
                   list([i \in 1..Len(objs) |-> r.w.heap[objs[i]].typename]))])
  /\ UNCHANGED dest

InitLoader ==
  /\ dest \in Artifacts
  /\ cache = NoCache
  /\ reads = 0
  /\ heap = <<>>
  /\ nextId = 1
  /\ results = <<>>

GetSchemaBundle ==
  /\ Len(results) < MaxCalls
  /\ \E g \in {get_schema_bundle(World, dest)} :
       Finish("get_schema_bundle", <<>>, <<>>,
              [w |-> g.w, outcome |-> g.outcome,
               value |-> IF g.outcome = "ok" THEN Bundle(g.obj, g.value) ELSE NoValue])

LoadMethod ==
  /\ Len(results) < MaxCalls
  /\ \E name \in MethodInputs :
       \E r \in {load_jsonrpc_method(World, dest, name)} :
         Finish("load_jsonrpc_method", name, <<>>, r)

LoadNotification ==
  /\ Len(results) < MaxCalls
  /\ \E n \in NotificationInputs :
       \E r \in {load_notification(World, dest, n.name, n.typename)} :
         Finish("load_notification", n.name, n.typename, r)

LoadService ==
  /\ Len(results) < MaxCalls
  /\ \E r \in {load_jsonrpc_service(World, dest)} :
       Finish("load_jsonrpc_service", <<>>, <<>>, r)

\* the environment: schema.json is deleted, or regenerated from other schemas
StorageChange ==
  /\ dest' \in {Absent, ArtifactFull} \ {dest}
  /\ UNCHANGED <<cache, reads, heap, nextId, results>>

-----------------------------------------------------------------------------
(* get_schema_bundle called by several threads *)

\* A call is the lookup in the cache, then on a miss the wrapped function,
\* which reads a file and so lets other threads run, then the store.

Threads == 1..NThreads

InitThreads ==
  /\ pc = [t \in Threads |-> "idle"]
  /\ pend = [t \in Threads |-> NoCache]
  /\ rv = [t \in Threads |-> <<>>]

\* the lookup of the lru_cache wrapper: a hit returns the cached object
Lookup(t) ==
  /\ pc[t] = "idle"
  /\ Len(rv[t]) < MaxThreadCalls
  /\ IF cache.set
     THEN /\ rv' = [rv EXCEPT ![t] = Append(@, [outcome |-> "ok", obj |-> cache.obj,
                                                hit |-> TRUE])]
          /\ UNCHANGED pc
     ELSE /\ pc' = [pc EXCEPT ![t] = "miss"]
          /\ UNCHANGED rv
  /\ UNCHANGED <<cache, reads, nextId, pend, dest>>

\* lines 49-50 run by thread t after its miss
LoadBundle(t) ==
  /\ pc[t] = "miss"
  /\ \E r \in {read_schema_json(dest, nextId)} :
       /\ reads' = reads + 1
       /\ IF r.outcome = "ok"
          THEN /\ nextId' = nextId + 1
               /\ pend' = [pend EXCEPT ![t] = [set |-> TRUE, obj |-> r.obj, value |-> r.value]]
               /\ pc' = [pc EXCEPT ![t] = "loaded"]
               /\ UNCHANGED rv
          ELSE /\ rv' = [rv EXCEPT ![t] = Append(@, [outcome |-> r.outcome, obj |-> 0,
                                                     hit |-> FALSE])]
               /\ pc' = [pc EXCEPT ![t] = "idle"]
               /\ UNCHANGED <<nextId, pend>>
  /\ UNCHANGED <<cache, dest>>

\* the wrapper stores what thread t loaded, unless the key is there by now,
\* and returns what thread t loaded
Store(t) ==
  /\ pc[t] = "loaded"
  /\ cache' = lru_store(cache, pend[t])
  /\ rv' = [rv EXCEPT ![t] = Append(@, [outcome |-> "ok", obj |-> pend[t].obj,
                                        hit |-> FALSE])]
  /\ pc' = [pc EXCEPT ![t] = "idle"]
  /\ pend' = [pend EXCEPT ![t] = NoCache]
  /\ UNCHANGED <<reads, nextId, dest>>

-----------------------------------------------------------------------------
(* Specifications *)

IdleBundler ==
  /\ topdir = NoDir /\ notifdir = NoDir
  /\ ret = NoCall /\ prevRet = NoCall /\ prevDest = Absent
  /\ listing = <<TRUE, TRUE>> /\ runs = 0

IdleLoader ==
  /\ cache = NoCache /\ reads = 0 /\ heap = <<>> /\ nextId = 1 /\ results = <<>>

\* the bundler alone
InitBundlerAlone == InitBundler /\ IdleLoader /\ InitThreads
NextBundler == CombineSchemas /\ UNCHANGED <<loaderVars, threadVars>>
SpecBundler == InitBundlerAlone /\ [][NextBundler]_vars

\* the loaders in one thread
Next ==
  \/ GetSchemaBundle /\ UNCHANGED <<bundlerVars, threadVars>>
  \/ LoadMethod /\ UNCHANGED <<bundlerVars, threadVars>>
  \/ LoadNotification /\ UNCHANGED <<bundlerVars, threadVars>>
  \/ LoadService /\ UNCHANGED <<bundlerVars, threadVars>>
  \/ StorageChange /\ UNCHANGED <<bundlerVars, threadVars>>
Init == InitLoader /\ IdleBundler /\ InitThreads
Spec == Init /\ [][Next]_vars

\* get_schema_bundle called by NThreads threads
InitThreaded == InitLoader /\ IdleBundler /\ InitThreads
NextThreaded ==
  \E t \in Threads :
    \/ Lookup(t) /\ UNCHANGED <<bundlerVars, heap, results>>
    \/ LoadBundle(t) /\ UNCHANGED <<bundlerVars, heap, results>>
    \/ Store(t) /\ UNCHANGED <<bundlerVars, heap, results>>
SpecThreaded == InitThreaded /\ [][NextThreaded]_vars

-----------------------------------------------------------------------------
(* Properties of the bundler *)

KeySet(od) == {od[i].k : i \in 1..Len(od)}
NoDuplicateKeys(od) == \A i, j \in 1..Len(od) : od[i].k = od[j].k => i = j

\* the files the bundle is to hold, by the one extension '.json'
WantedMethods == {f \in DOMAIN topdir : endswith(f, s_json) /\ f # s_lightning_sql}
WantedNotifications == {f \in DOMAIN notifdir : endswith(f, s_json)}

BundlerReturned == runs > 0 /\ ret.outcome = "ok"

\* C1: completeness of combine_schemas. When it returns, the returned bundle
\* and the written artifact hold exactly one entry per file of the schema
\* directory whose name ends in '.json' other than lightning-sql.json, under
\* 'methods', exactly one per file of the notification subdirectory whose
\* name ends in '.json', under 'notifications', and no other entry.
C1_Completeness ==
  BundlerReturned =>
    LET m == od_get(ret.bundle, s_methods)
        n == od_get(ret.bundle, s_notifications)
    IN /\ NoDuplicateKeys(m) /\ KeySet(m) = WantedMethods
       /\ \A i \in 1..Len(m) : m[i].v = topdir[m[i].k]
       /\ NoDuplicateKeys(n) /\ KeySet(n) = WantedNotifications
       /\ \A i \in 1..Len(n) : n[i].v = notifdir[n[i].k]
       /\ dest.exists /\ json_load(dest.text) = ret.bundle

\* what C1 says of the top directory alone, which the code does
C1_MethodsComplete ==
  BundlerReturned =>
    LET m == od_get(ret.bundle, s_methods)
    IN /\ NoDuplicateKeys(m) /\ KeySet(m) = WantedMethods
       /\ \A i \in 1..Len(m) : m[i].v = topdir[m[i].k]
       /\ dest.exists /\ json_load(dest.text) = ret.bundle

IsAscending(keys) == \A i \in 1..(Len(keys) - 1) : str_lt(keys[i], keys[i + 1])

\* the lines of the artifact that carry the entries of one section
SectionKeys(text, sec) ==
  LET at == CHOOSE i \in 1..Len(text) : text[i].key = sec /\ text[i].ind = 2
      RECURSIVE Take(_)
      Take(i) == IF text[i].kind = "entry" THEN <<text[i].key>> \o Take(i + 1) ELSE <<>>
  IN IF text[at].kind = "empty" THEN <<>> ELSE Take(at + 1)

\* C7: determinism of the bundler. The artifact of a run lists the entries of
\* 'methods' and of 'notifications' in the lexicographic order of the file
\* names whatever order the directories were enumerated in, 'methods' first,
\* indented by 2 spaces per level; and a run over the unchanged directory
\* after a run that succeeded writes the same artifact again.
C7_Determinism ==
  BundlerReturned =>
    /\ dest.exists
    /\ \E i, j \in 1..Len(dest.text) :
         /\ i < j
         /\ dest.text[i].key = s_methods /\ dest.text[i].ind = 2
         /\ dest.text[j].key = s_notifications /\ dest.text[j].ind = 2
    /\ \A i \in 1..Len(dest.text) :
         /\ dest.text[i].kind = "entry" => dest.text[i].ind = 4
         /\ dest.text[i].ind \in {0, 2, 4}
    /\ IsAscending(SectionKeys(dest.text, s_methods))
    /\ IsAscending(SectionKeys(dest.text, s_notifications))
    /\ Len(SectionKeys(dest.text, s_methods)) = Len(od_get(ret.bundle, s_methods))
    /\ Len(SectionKeys(dest.text, s_notifications)) = Len(od_get(ret.bundle, s_notifications))
    /\ prevRet.outcome = "ok" => dest = prevDest

\* two runs succeeded, the second having seen both directories, of two
\* bundled files each, in another order than the ascending one
C7_Witness ==
  /\ runs = 2 /\ ret.outcome = "ok" /\ prevRet.outcome = "ok"
  /\ Len(od_get(ret.bundle, s_methods)) = 2
  /\ Len(od_get(ret.bundle, s_notifications)) = 2
  /\ listing = <<FALSE, FALSE>>

BundlerRaised == runs > 0 /\ ret.outcome # "ok"

\* some file that is to be bundled, by the extension '.json', is not parseable
SomeWantedFileUnparseable ==
  \/ exists(topdir) /\ \E f \in WantedMethods : topdir[f] = NotJson
  \/ exists(topdir) /\ exists(notifdir) /\ \E f \in WantedNotifications : notifdir[f] = NotJson

\* C8: failure atomicity of the bundler. combine_schemas raises when a
\* directory is missing or a bundled file is not parseable, a failed run
\* leaves the artifact as it was, and a file whose name does not end in
\* '.json' is skipped and never the cause of an error: a run over existing
\* directories whose '.json' files all parse succeeds.
C8_FailureAtomicity ==
  runs > 0 =>
    /\ (~exists(topdir) \/ ~exists(notifdir) \/ SomeWantedFileUnparseable) => BundlerRaised
    /\ BundlerRaised => dest = prevDest
    /\ (exists(topdir) /\ exists(notifdir) /\ ~SomeWantedFileUnparseable) => BundlerReturned

\* the parts of C8 the code keeps: the failures and the untouched artifact
C8_RaisedLeavesArtifact ==
  runs > 0 =>
    /\ (~exists(topdir) \/ ~exists(notifdir) \/ SomeWantedFileUnparseable) => BundlerRaised
    /\ BundlerRaised => dest = prevDest

-----------------------------------------------------------------------------
(* Properties of get_schema_bundle *)

\* C2: the cache under concurrency. While schema.json is there to be read,
\* threads that call get_schema_bundle concurrently run the load (open and
\* parse) at most once between them, and every call returns the same object.
C2_LoadedOnceForAll ==
  read_schema_json(dest, 0).outcome = "ok" =>
    /\ reads <= 1
    /\ \A t, u \in Threads : \A i \in 1..Len(rv[t]), j \in 1..Len(rv[u]) :
         rv[t][i].obj = rv[u][j].obj

\* what the lru_cache does give: once a call has returned, the cache holds
\* one object for good, and every call that hits returns that object
C2_HitsReturnCached ==
  \A t \in Threads : \A i \in 1..Len(rv[t]) :
    /\ rv[t][i].outcome = "ok" => cache.set
    /\ rv[t][i].hit => rv[t][i].obj = cache.obj

IsCall(i, op) == i \in 1..Len(results) /\ results[i].op = op
Succeeded(i) == results[i].outcome = "ok"
\* call i got the bundle from get_schema_bundle
GotBundle(i) == results[i].got # {}

\* C3: the cache is a singleton. Once a call has got the bundle, every later
\* call gets the identical object, reads no storage, and so succeeds in
\* getting it even when schema.json has been deleted or regenerated since;
\* nothing invalidates the cache.
C3_CacheSingleton ==
  \A i, j \in 1..Len(results) :
    (i < j /\ GotBundle(i)) =>
      /\ results[j].got = results[i].got
      /\ Cardinality(results[j].got) = 1
      /\ results[j].readsAfter = results[j].readsBefore
      /\ results[j].readsAfter = results[i].readsAfter
      /\ cache.set /\ results[j].got = {cache.obj}
      /\ (IsCall(i, "get_schema_bundle") /\ IsCall(j, "get_schema_bundle"))
           => /\ Succeeded(j)
              /\ results[j].value = results[i].value
              /\ results[j].value.value = cache.value

\* get_schema_bundle returned the bundle, schema.json was deleted, and a
\* second get_schema_bundle returned all the same
C3_Witness ==
  /\ Len(results) = 2
  /\ IsCall(1, "get_schema_bundle") /\ Succeeded(1) /\ results[1].stored
  /\ IsCall(2, "get_schema_bundle") /\ Succeeded(2) /\ ~results[2].stored

-----------------------------------------------------------------------------
(* Properties of the loaders *)

AllDistinct(seq) == \A i, j \in 1..Len(seq) : seq[i] = seq[j] => i = j

\* the type names of the requests, and of the responses, of the methods of a
\* Service that call i returned
RequestTypes(i) ==
  list([k \in 1..Len(results[i].value.methods) |-> results[i].types[2 * k - 1]])
ResponseTypes(i) ==
  list([k \in 1..Len(results[i].value.methods) |-> results[i].types[2 * k]])

\* C4: name disambiguation. The request and the response of a loaded Method
\* have different type names, and among the methods of a loaded Service no
\* two have the same request type name, no two the same response type name,
\* and no request type name is a response type name.
C4_NameDisambiguation ==
  \A i \in 1..Len(results) :
    /\ (IsCall(i, "load_jsonrpc_method") /\ Succeeded(i)) =>
         results[i].types[1] # results[i].types[2]
    /\ (IsCall(i, "load_jsonrpc_service") /\ Succeeded(i)) =>
         /\ AllDistinct(RequestTypes(i))
         /\ AllDistinct(ResponseTypes(i))
         /\ Range(RequestTypes(i)) \cap Range(ResponseTypes(i)) = {}

\* a Method was loaded and then the Service of the whole manifest
C4_Witness ==
  /\ Len(results) = 2
  /\ IsCall(1, "load_jsonrpc_method") /\ Succeeded(1)
  /\ IsCall(2, "load_jsonrpc_service") /\ Succeeded(2)
  /\ Len(results[2].value.methods) = Len(method_names)

\* the loader calls load_jsonrpc_service is to make, in order
ManifestCalls ==
  list([k \in 1..Len(method_names) |->
          [loader |-> "load_jsonrpc_method", name |-> method_names[k], typename |-> <<>>]])
  \o list([k \in 1..Len(notification_names) |->
          [loader |-> "load_notification", name |-> notification_names[k].name,
           typename |-> notification_names[k].typename]])

IsPrefix(s, t) == Len(s) <= Len(t) /\ s = SubSeq(t, 1, Len(s))

\* C5: service assembly. load_jsonrpc_service calls the method loader once
\* per name of the manifest, in order, then the notification loader once per
\* descriptor, in order. When it returns, the Service holds the Methods and
\* the Notifications of the manifest in the manifest's order and includes
\* exactly 'primitives.proto'. When a load raises, the calls stop there, the
\* error is raised and no Service is returned.
C5_ServiceAssembly ==
  \A i \in 1..Len(results) :
    IsCall(i, "load_jsonrpc_service") =>
      IF Succeeded(i)
      THEN /\ results[i].log = ManifestCalls
           /\ results[i].value.kind = "Service"
           /\ Len(results[i].value.methods) = Len(method_names)
           /\ \A k \in 1..Len(method_names) :
                /\ results[i].value.methods[k].kind = "Method"
                /\ results[i].value.methods[k].name = method_names[k]
           /\ Len(results[i].value.notifications) = Len(notification_names)
           /\ \A k \in 1..Len(notification_names) :
                /\ results[i].value.notifications[k].kind = "Notification"
                /\ results[i].value.notifications[k].name = notification_names[k].name
                /\ results[i].value.notifications[k].typename = notification_names[k].typename
           /\ results[i].value.includes = <<"primitives.proto">>
      ELSE /\ results[i].value = NoValue
           /\ results[i].outcome \in {"KeyError", "FileNotFoundError", "JSONDecodeError"}
           /\ Len(results[i].log) >= 1
           /\ IsPrefix(results[i].log, ManifestCalls)

\* a load_jsonrpc_service that raised at a method in the middle of the
\* manifest, and one that returned the Service
C5_Witness ==
  \E i, j \in 1..Len(results) :
    /\ IsCall(i, "load_jsonrpc_service") /\ results[i].outcome = "FileNotFoundError"
    /\ IsCall(j, "load_jsonrpc_service") /\ Succeeded(j)
    /\ Len(results[j].value.methods) = Len(method_names)

\* a load_jsonrpc_service that raised KeyError part of the way
C5_WitnessKeyError ==
  \E i \in 1..Len(results) :
    /\ IsCall(i, "load_jsonrpc_service") /\ results[i].outcome = "KeyError"
    /\ Len(results[i].log) > 1

CachedKeys(section) == KeySet(od_get(cache.value, section))

\* C6: lookup failure. Against a loaded bundle, load_jsonrpc_method of a
\* name whose key 'lightning-<lowercased name>.json' is not under 'methods'
\* raises KeyError, and load_notification of a name for which
\* '<lowercased name>.request.json' or '<lowercased name>.schema.json' is
\* not under 'notifications' raises KeyError; neither returns a value.
C6_LookupFailure ==
  \A i \in 1..Len(results) :
    /\ (/\ IsCall(i, "load_jsonrpc_method") /\ GotBundle(i)
        /\ s_lightning \o lower(results[i].name) \o s_json \notin CachedKeys(s_methods))
         => results[i].outcome = "KeyError" /\ results[i].value = NoValue
    /\ (/\ IsCall(i, "load_notification") /\ GotBundle(i)
        /\ \/ lower(results[i].name) \o s_request_json \notin CachedKeys(s_notifications)
           \/ lower(results[i].name) \o s_schema_json \notin CachedKeys(s_notifications))
         => results[i].outcome = "KeyError" /\ results[i].value = NoValue

\* load_jsonrpc_method("DoesNotExist") and load_notification("ghost",
\* "Ghost") against a loaded bundle
C6_Witness ==
  /\ Len(results) = 2
  /\ IsCall(1, "load_jsonrpc_method") /\ GotBundle(1)
  /\ results[1].name = <<68, 111, 101, 115, 78, 111, 116, 69, 120, 105, 115, 116>> (* "DoesNotExist" *)
  /\ IsCall(2, "load_notification") /\ GotBundle(2)
  /\ results[2].name = <<103, 104, 111, 115, 116>> (* "ghost" *)

\* a notification whose request file is there and whose schema file is not
C6_WitnessOneFileMissing ==
  \E i \in 1..Len(results) :
    /\ IsCall(i, "load_notification") /\ GotBundle(i)
    /\ lower(results[i].name) \o s_request_json \in CachedKeys(s_notifications)
    /\ lower(results[i].name) \o s_schema_json \notin CachedKeys(s_notifications)

\* C9: notification naming. load_notification(n, T), with both files of n
\* in the loaded bundle, returns a Notification named n of type name T whose
\* request has the type name 'Stream' + T + 'Request' and whose response has
\* T + 'Notification': block_added / BlockAdded gives
\* StreamBlockAddedRequest and BlockAddedNotification.
C9_NotificationNaming ==
  \A i \in 1..Len(results) :
    (/\ IsCall(i, "load_notification") /\ GotBundle(i)
     /\ lower(results[i].name) \o s_request_json \in CachedKeys(s_notifications)
     /\ lower(results[i].name) \o s_schema_json \in CachedKeys(s_notifications))
      => /\ Succeeded(i)
         /\ results[i].value.kind = "Notification"
         /\ results[i].value.name = results[i].name
         /\ results[i].value.typename = results[i].typename
         /\ results[i].types = <<s_Stream \o results[i].typename \o s_Request,
                                 results[i].typename \o s_Notification>>
         /\ results[i].name = <<98, 108, 111, 99, 107, 95, 97, 100, 100, 101, 100>> (* "block_added" *) =>
              results[i].types = <<<<83, 116, 114, 101, 97, 109, 66, 108, 111, 99, 107, 65, 100, 100, 101, 100, 82, 101, 113, 117, 101, 115, 116>> (* "StreamBlockAddedRequest" *),
                                   <<66, 108, 111, 99, 107, 65, 100, 100, 101, 100, 78, 111, 116, 105, 102, 105, 99, 97, 116, 105, 111, 110>> (* "BlockAddedNotification" *)>>

\* load_notification("block_added", "BlockAdded") returned, and so did a
\* load under a name that is not in lower case
C9_Witness ==
  /\ Len(results) = 2
  /\ IsCall(1, "load_notification") /\ Succeeded(1)
  /\ results[1].name = <<98, 108, 111, 99, 107, 95, 97, 100, 100, 101, 100>> (* "block_added" *) /\ results[1].typename = <<66, 108, 111, 99, 107, 65, 100, 100, 101, 100>> (* "BlockAdded" *)
  /\ IsCall(2, "load_notification") /\ Succeeded(2)
  /\ results[2].name = <<67, 85, 83, 84, 79, 77, 77, 83, 71>> (* "CUSTOMMSG" *)

\* the CompositeFields of every value returned so far, call after call
AllComposites ==
  LET RECURSIVE Upto(_)
      Upto(i) == IF i = 0 THEN <<>> ELSE Upto(i - 1) \o Composites(results[i].value)
  IN Upto(Len(results))

\* C10: CompositeFields are fresh and unshared. No CompositeField is held by
\* two returned values or twice by one; each still has the type name it had
\* when its call returned; the cached bundle is the one get_schema_bundle
\* returned; and loading a method again gives the same type names again,
\* the suffix appended once.
C10_FreshComposites ==
  /\ AllDistinct(AllComposites)
  /\ \A i \in 1..Len(results) :
       /\ \A k \in 1..Len(results[i].types) :
            heap[Composites(results[i].value)[k]].typename = results[i].types[k]
       /\ (IsCall(i, "get_schema_bundle") /\ Succeeded(i)) =>
            cache.value = results[i].value.value
       /\ (IsCall(i, "load_jsonrpc_method") /\ Succeeded(i)) =>
            /\ endswith(results[i].types[1], s_Request)
            /\ ~endswith(results[i].types[1], s_Request \o s_Request)
            /\ endswith(results[i].types[2], s_Response)
            /\ ~endswith(results[i].types[2], s_Response \o s_Response)
  /\ \A i, j \in 1..Len(results) :
       (/\ results[i].op = results[j].op /\ results[i].name = results[j].name
        /\ results[i].typename = results[j].typename
        /\ Succeeded(i) /\ Succeeded(j))
         => results[i].types = results[j].types

\* the same method loaded twice against the one cached bundle
C10_Witness ==
  /\ Len(results) = 2
  /\ IsCall(1, "load_jsonrpc_method") /\ Succeeded(1)
  /\ IsCall(2, "load_jsonrpc_method") /\ Succeeded(2)
  /\ results[1].name = results[2].name
  /\ results[1].got = results[2].got

=============================================================================
